---------------------------- MODULE Spec2Model ----------------------------
(* Model of the Tado API server (src/api.py): the process-wide cached      *)
(* client handle, the token file, and the request handlers of every        *)
(* endpoint, each translated statement by statement.  The handlers are     *)
(* `async def` coroutines that never await, served by one uvicorn event    *)
(* loop: a handler that has been started runs to its response before the   *)
(* loop starts another one, and time.sleep() keeps the loop occupied.      *)
EXTENDS Integers, FiniteSets, Sequences, TLC

\* ---------------------------------------------------------------- bounds
MaxRequests == 2      \* connections that can be open at the same time
MaxHandles  == 2      \* Tado objects ever stored in app.state.tado_client
MaxZones    == 1      \* the vendor reports the zones 1..MaxZones
MaxCount    == 2      \* the zone-state fetches of one request are counted up to here

\* ------------------------------------------------------ program constants
MAX_ATTEMPTS == 30    \* max_attempts = 30

Requests == 1..MaxRequests
Handles  == 1..MaxHandles
ZoneIds  == 1..(MaxZones + 1)   \* the zone ids a client asks for: one is unknown
None     == 0
NoCount  == -1        \* zone_count: Optional[int] = None

Statuses == {"NOT_STARTED", "PENDING", "COMPLETED", "OTHER"}
Ops      == {"api", "health", "status", "start", "complete", "reset", "zones", "zone"}

VARIABLES
  tado_client,   \* app.state.tado_client: None or a handle
  hstatus,       \* the activation status held by each live Tado object
  nhandles,      \* number of Tado objects stored so far (allocates identities)
  token_exists,  \* os.path.exists(TOKEN_FILE_PATH)
  zoneStates,    \* the zone ids the vendor reports in zones["zoneStates"]
  op,            \* the endpoint each open request asked for
  pc,            \* the position of each request's handler
  loc,           \* the handler's local variables (and its call counters)
  lastDone,      \* the request answered most recently, when it was a reset or a short cut
  constructed,   \* how many times get_tado_client stored a new Tado object
  anySuccess,    \* some request has been answered with a non-error response
  handleSuccess  \* some request that had to use the handle was answered without error

vars == <<tado_client, hstatus, nhandles, token_exists, zoneStates, op, pc, loc,
          lastDone, constructed, anySuccess, handleSuccess>>

\* ------------------------------------------------------------- responses
\* ActivationResponse / the dict a handler returns / the HTTPException raised.
\* detail: the status string embedded in the message (or the health
\* endpoint's activation_status); url: a verification URL is present.
Resp(code, status, detail, zc, url, tok) ==
  [code |-> code, status |-> status, detail |-> detail, zone_count |-> zc,
   url |-> url, token_file_exists |-> tok]

Ok(status)      == Resp(200, status, "", NoCount, FALSE, FALSE)
HTTPError(code) == Resp(code, "error", "", NoCount, FALSE, FALSE)
NoResp          == Resp(0, "", "", NoCount, FALSE, FALSE)

\* str.lower() on the status strings
Lower(s) ==
  CASE s = "NOT_STARTED" -> "not_started"
    [] s = "PENDING"     -> "pending"
    [] s = "COMPLETED"   -> "completed"
    [] s = "OTHER"       -> "other"

\* len(zones.get("zoneStates", {}))
ZoneCount(zs) == Cardinality(zs)

\* --------------------------------------------------------------- locals
\* One more call counted, up to MaxCount.
Count(n) == IF n < MaxCount THEN n + 1 ELSE n

Loc0 == [tado |-> None, status |-> "", attempt |-> 0, zone_id |-> 0,
         init |-> "", allPending |-> TRUE, failed |-> "", raised |-> "",
         before |-> None, tokenBefore |-> FALSE,
         polls |-> 0, sleeps |-> 0, fetches |-> 0, urls |-> 0,
         res |-> NoResp]

NoDone == [op |-> "none", init |-> "", res |-> NoResp]

Init ==
  /\ tado_client = None
  /\ hstatus = [h \in Handles |-> "NONE"]
  /\ nhandles = 0
  /\ token_exists \in BOOLEAN
  /\ zoneStates = 1..MaxZones
  /\ op = [r \in Requests |-> "none"]
  /\ pc = [r \in Requests |-> "idle"]
  /\ loc = [r \in Requests |-> Loc0]
  /\ lastDone = NoDone
  /\ constructed = 0
  /\ anySuccess = FALSE
  /\ handleSuccess = FALSE


\* ------------------------------------------------------ vendor client (PyTado)
\* Tado(token_file_path=...): the status a new object holds.  With a token
\* file the saved token is either accepted or a new device flow is begun;
\* without one the activation has not gone beyond the device flow.
TadoInit(tok) == IF tok THEN {"COMPLETED", "PENDING"} ELSE {"NOT_STARTED", "PENDING"}

\* tado.device_activation(): one polling step; a completed activation stays
\* so, any other one may be left in any status.
DriveOutcomes(s) == IF s = "COMPLETED" THEN {"COMPLETED"} ELSE Statuses

\* ------------------------------------------------------------ event loop
Running(r) == pc[r] \notin {"idle", "queued"}

\* Mutant: handlers declared `def` run in the thread pool, side by side.
LoopFreeThreaded == TRUE

\* The event loop starts a handler only when no other handler is running:
\* the handlers are coroutines without a single await.
LoopFree == \A q \in Requests : ~Running(q)

\* ------------------------------------------------- the handlers' except clauses
\* Mutant: no handler has an `except HTTPException: raise` clause.
OnHTTPExceptionSwallowed(o, code) ==
  CASE o = "status" -> Ok("not_started")
    [] OTHER        -> HTTPError(500)

\* What a handler makes of an HTTPException raised inside it.
OnHTTPException(o, code) ==
  CASE o = "status"   -> Ok("not_started")      \* except Exception (l.130)
    [] o = "start"    -> HTTPError(500)         \* except Exception (l.167)
    [] o = "complete" -> HTTPError(code)        \* except HTTPException: raise (l.235)
    [] o = "reset"    -> HTTPError(500)         \* except Exception (l.258)
    [] OTHER          -> HTTPError(code)        \* zones, zone: raised outside try / re-raised

\* Mutant: no handler recovers from an exception.
OnExceptionRaised(o) == HTTPError(500)

\* What a handler makes of any other exception raised inside its try block.
OnException(o) ==
  CASE o = "status" -> Ok("not_started")
    [] OTHER        -> HTTPError(500)

\* ---------------------------------------------------------------- helpers
Set(r, p, l)        == /\ pc' = [pc EXCEPT ![r] = p]
                       /\ loc' = [loc EXCEPT ![r] = l]
Respond(r, l, resp) == Set(r, "done", [l EXCEPT !.res = resp])

\* The first statement of each handler.
Entry(o) ==
  CASE o = "api"      -> "api_root"
    [] o = "health"   -> "hc_exists"
    [] o = "status"   -> "gtc_read"
    [] o = "start"    -> "sa_mkdir"
    [] o = "complete" -> "gtc_read"
    [] o = "reset"    -> "ra_mkdir"
    [] o = "zones"    -> "gtc_read"
    [] o = "zone"     -> "gtc_read"

\* The statement that follows `tado = get_tado_client()` in each handler.
AfterClient(o) ==
  CASE o = "status"   -> "st_status"
    [] o = "start"    -> "sa_status"
    [] o = "complete" -> "ca_status"
    [] o = "zones"    -> "gz_fetch"
    [] o = "zone"     -> "z_fetch"

UsesHandle(o) == o \in {"status", "start", "complete", "zones", "zone"}

\* ------------------------------------------------------ requests come and go
\* A client sends a request: its bytes wait on the socket for the event loop.
Arrive(r) ==
  /\ pc[r] = "idle"
  /\ Set(r, "queued", Loc0)
  /\ UNCHANGED <<tado_client, hstatus, nhandles, token_exists, zoneStates, op,
                 lastDone, constructed, anySuccess, handleSuccess>>

\* The event loop reads a waiting request, routes it and starts its handler.
StartRequest(r) ==
  /\ pc[r] = "queued"
  /\ LoopFree
  /\ \E o \in Ops, z \in ZoneIds :
       /\ o = "zone" \/ z = 1
       /\ o = "reset" => nhandles < MaxHandles
       /\ op' = [op EXCEPT ![r] = o]
       /\ Set(r, Entry(o), [Loc0 EXCEPT !.zone_id = IF o = "zone" THEN z ELSE 0])
  /\ UNCHANGED <<tado_client, hstatus, nhandles, token_exists, zoneStates,
                 lastDone, constructed, anySuccess, handleSuccess>>

\* What is remembered of an answered request: a reset, or a start or complete
\* that found COMPLETED at once, with its response.
Summary(o, l) ==
  IF o = "reset" \/ (o \in {"start", "complete"} /\ l.init = "COMPLETED")
    THEN [op |-> o, init |-> l.init, res |-> l.res]
    ELSE NoDone

\* A request that had to use the handle to be answered as it was.
NeededHandle(o, resp) ==
  \/ o \in {"start", "complete", "zones", "zone", "reset"}
  \/ o = "status" /\ resp.status # "not_started"

\* The response is sent and the connection is free again.
Finish(r) ==
  /\ pc[r] = "done"
  /\ lastDone' = Summary(op[r], loc[r])
  /\ anySuccess' = (anySuccess \/ loc[r].res.code = 200)
  /\ handleSuccess' = (handleSuccess \/ (loc[r].res.code = 200 /\ NeededHandle(op[r], loc[r].res)))
  /\ op' = [op EXCEPT ![r] = "none"]
  /\ Set(r, "idle", Loc0)
  /\ UNCHANGED <<tado_client, hstatus, nhandles, token_exists, zoneStates, constructed>>


\* ------------------------------------------------------- get_tado_client
\* A Tado object that nothing refers to any more is collected.
Referenced(h, c) == h = c \/ \E q \in Requests : Running(q) /\ loc[q].tado = h

\* Mutant: the new object is handed to the caller but never cached.
StoreClientForgotten(s) ==
  /\ nhandles < MaxHandles
  /\ nhandles' = nhandles + 1
  /\ hstatus' = [hstatus EXCEPT ![nhandles + 1] = s]
  /\ UNCHANGED tado_client

\* app.state.tado_client = client, for a newly built object holding status s.
StoreClient(s) ==
  LET new == nhandles + 1 IN
  /\ nhandles < MaxHandles
  /\ nhandles' = new
  /\ tado_client' = new
  /\ hstatus' = [h \in Handles |->
                   IF h = new THEN s
                   ELSE IF Referenced(h, new) THEN hstatus[h] ELSE "NONE"]

\* Mutant: the cache is never consulted.
ClientCachedNever(c) == FALSE

\* `if client is None` (negated): a handle is cached.
ClientCached(c) == c # None

\* client = getattr(app.state, "tado_client", None); return it when cached.
get_tado_client_read(r) ==
  /\ pc[r] = "gtc_read"
  /\ IF ClientCached(tado_client)
       THEN Set(r, AfterClient(op[r]), [loc[r] EXCEPT !.tado = tado_client])
       ELSE Set(r, "gtc_new", loc[r])
  /\ UNCHANGED <<tado_client, hstatus, nhandles, token_exists, zoneStates, op,
                 lastDone, constructed, anySuccess, handleSuccess>>

\* client = Tado(...); app.state.tado_client = client -- or HTTPException(503).
get_tado_client_new(r) ==
  /\ pc[r] = "gtc_new"
  /\ \/ /\ Respond(r, [loc[r] EXCEPT !.failed = "construct"], OnHTTPException(op[r], 503))
        /\ UNCHANGED <<tado_client, hstatus, nhandles, constructed>>
     \/ \E s \in TadoInit(token_exists) :
          /\ StoreClient(s)
          /\ constructed' = constructed + 1
          /\ Set(r, AfterClient(op[r]), [loc[r] EXCEPT !.tado = nhandles + 1])
  /\ UNCHANGED <<token_exists, zoneStates, op, lastDone, anySuccess, handleSuccess>>

\* ------------------------------------------------------------ GET /api
api_root(r) ==
  /\ pc[r] = "api_root"
  /\ Respond(r, loc[r], Ok("Tado API"))
  /\ UNCHANGED <<tado_client, hstatus, nhandles, token_exists, zoneStates, op,
                 lastDone, constructed, anySuccess, handleSuccess>>

\* ---------------------------------------------------------- GET /health
\* Mutant: the token file alone makes the service healthy.
HealthTokenOnly(tok, act) ==
  Resp(200, IF tok THEN "healthy" ELSE "unhealthy", act, NoCount, FALSE, tok)

\* "healthy" if token_exists and activation_status == "COMPLETED"
Health(tok, act) ==
  Resp(200, IF tok /\ act = "COMPLETED" THEN "healthy" ELSE "unhealthy",
       act, NoCount, FALSE, tok)

\* token_exists = os.path.exists(TOKEN_FILE_PATH)
health_check_exists(r) ==
  /\ pc[r] = "hc_exists"
  /\ IF token_exists
       THEN Set(r, "hc_status", loc[r])
       ELSE Respond(r, loc[r], Health(FALSE, "unknown"))
  /\ UNCHANGED <<tado_client, hstatus, nhandles, token_exists, zoneStates, op,
                 lastDone, constructed, anySuccess, handleSuccess>>

\* tado = Tado(...); activation_status = tado.device_activation_status()
\* on an object of its own, never cached; any exception gives "error".
health_check_status(r) ==
  /\ pc[r] = "hc_status"
  /\ \/ Respond(r, loc[r], Health(TRUE, "error"))
     \/ \E s \in TadoInit(token_exists) : Respond(r, loc[r], Health(TRUE, s))
  /\ UNCHANGED <<tado_client, hstatus, nhandles, token_exists, zoneStates, op,
                 lastDone, constructed, anySuccess, handleSuccess>>

\* -------------------------------------------------- GET /activation/status
\* status = tado.device_activation_status() and the branch on it.
get_activation_status_status(r) ==
  /\ pc[r] = "st_status"
  /\ \/ Respond(r, [loc[r] EXCEPT !.failed = "adapter"], OnException("status"))
     \/ LET s == hstatus[loc[r].tado]
            l == [loc[r] EXCEPT !.status = s, !.init = s] IN
          CASE s = "COMPLETED" -> Set(r, "st_zones", l)
            [] s = "PENDING"   -> Respond(r, l, Ok("pending"))
            [] OTHER           -> Respond(r, l, Resp(200, Lower(s), s, NoCount, FALSE, FALSE))
  /\ UNCHANGED <<tado_client, hstatus, nhandles, token_exists, zoneStates, op,
                 lastDone, constructed, anySuccess, handleSuccess>>

\* zones = tado.get_zone_states() inside its own try: "completed" either way.
get_activation_status_zones(r) ==
  /\ pc[r] = "st_zones"
  /\ LET l == [loc[r] EXCEPT !.fetches = Count(@)] IN
       \/ Respond(r, [l EXCEPT !.failed = "adapter"], Ok("completed"))
       \/ Respond(r, l, Resp(200, "completed", "", ZoneCount(zoneStates), FALSE, FALSE))
  /\ UNCHANGED <<tado_client, hstatus, nhandles, token_exists, zoneStates, op,
                 lastDone, constructed, anySuccess, handleSuccess>>

\* -------------------------------------------------- POST /activation/start
\* os.makedirs(os.path.dirname(TOKEN_FILE_PATH), exist_ok=True)
start_activation_mkdir(r) ==
  /\ pc[r] = "sa_mkdir"
  /\ \/ Respond(r, [loc[r] EXCEPT !.failed = "os"], OnException("start"))
     \/ Set(r, "gtc_read", loc[r])
  /\ UNCHANGED <<tado_client, hstatus, nhandles, token_exists, zoneStates, op,
                 lastDone, constructed, anySuccess, handleSuccess>>

\* Mutant: the URL is requested whatever the status.
StartCompletedNever(s) == FALSE

\* `if status == "COMPLETED"` in start_activation: already activated.
StartCompleted(s) == s = "COMPLETED"

\* status = tado.device_activation_status()
start_activation_status(r) ==
  /\ pc[r] = "sa_status"
  /\ \/ Respond(r, [loc[r] EXCEPT !.failed = "adapter"], OnException("start"))
     \/ LET s == hstatus[loc[r].tado]
            l == [loc[r] EXCEPT !.status = s, !.init = s] IN
          IF StartCompleted(s) THEN Set(r, "sa_zones", l) ELSE Set(r, "sa_url", l)
  /\ UNCHANGED <<tado_client, hstatus, nhandles, token_exists, zoneStates, op,
                 lastDone, constructed, anySuccess, handleSuccess>>

\* zones = tado.get_zone_states(); return "completed" with the zone count
start_activation_zones(r) ==
  /\ pc[r] = "sa_zones"
  /\ LET l == [loc[r] EXCEPT !.fetches = Count(@)] IN
       \/ Respond(r, [l EXCEPT !.failed = "adapter"], OnException("start"))
       \/ Respond(r, l, Resp(200, "completed", "", ZoneCount(zoneStates), FALSE, FALSE))
  /\ UNCHANGED <<tado_client, hstatus, nhandles, token_exists, zoneStates, op,
                 lastDone, constructed, anySuccess, handleSuccess>>

\* url = tado.device_verification_url(); return "pending" with the url
start_activation_url(r) ==
  /\ pc[r] = "sa_url"
  /\ LET l == [loc[r] EXCEPT !.urls = @ + 1] IN
       \/ Respond(r, [l EXCEPT !.failed = "adapter"], OnException("start"))
       \/ Respond(r, l, Resp(200, "pending", "", NoCount, TRUE, FALSE))
  /\ UNCHANGED <<tado_client, hstatus, nhandles, token_exists, zoneStates, op,
                 lastDone, constructed, anySuccess, handleSuccess>>


\* ----------------------------------------------- POST /activation/complete
\* "Activation not complete yet. Status: {status}. ..."
NotComplete(s) == Resp(200, "pending", s, NoCount, FALSE, FALSE)

\* "Activation successful! Token saved and verified"
Completed(zs) == Resp(200, "completed", "", ZoneCount(zs), FALSE, FALSE)

\* Mutant: the short cut before the loop is never taken.
AlreadyCompletedNever(s) == FALSE

\* `if status == "COMPLETED"` before the loop: already completed.
AlreadyCompleted(s) == s = "COMPLETED"

\* status = tado.device_activation_status(): the first check, before the loop.
complete_activation_status(r) ==
  /\ pc[r] = "ca_status"
  /\ \/ Respond(r, [loc[r] EXCEPT !.failed = "adapter"], OnException("complete"))
     \/ LET s == hstatus[loc[r].tado]
            l == [loc[r] EXCEPT !.status = s, !.init = s,
                                !.allPending = (@ /\ s = "PENDING")] IN
          IF AlreadyCompleted(s)
            THEN Set(r, "ca_zones0", l)
            ELSE Set(r, "ca_poll", [l EXCEPT !.attempt = 0])
  /\ UNCHANGED <<tado_client, hstatus, nhandles, token_exists, zoneStates, op,
                 lastDone, constructed, anySuccess, handleSuccess>>

\* zones = tado.get_zone_states() of the short cut taken before the loop.
complete_activation_zones0(r) ==
  /\ pc[r] = "ca_zones0"
  /\ LET l == [loc[r] EXCEPT !.fetches = Count(@)] IN
       \/ Respond(r, [l EXCEPT !.failed = "adapter"], OnException("complete"))
       \/ Respond(r, l, Completed(zoneStates))
  /\ UNCHANGED <<tado_client, hstatus, nhandles, token_exists, zoneStates, op,
                 lastDone, constructed, anySuccess, handleSuccess>>

\* Mutant: the inner handler retries on the last attempt as well.
LastAttemptAlways(a) == FALSE

\* `attempt < max_attempts - 1`, negated: this is the last attempt.
LastAttempt(a) == ~(a < MAX_ATTEMPTS - 1)

\* Mutant: only a failing polling step is retried; any other exception is raised.
ExceptInnerPollOnly(r, l, c) ==
  IF LastAttempt(l.attempt) \/ c # "poll"
    THEN Respond(r, [l EXCEPT !.failed = "adapter", !.raised = c], OnException("complete"))
    ELSE Set(r, "ca_sleep", [l EXCEPT !.failed = "adapter", !.raised = c, !.sleeps = @ + 1])

\* except Exception as inner_e: sleep and continue, or raise on the last
\* attempt; c is the call of this attempt that raised (kept in raised).
ExceptInner(r, l, c) ==
  IF LastAttempt(l.attempt)
    THEN Respond(r, [l EXCEPT !.failed = "adapter", !.raised = c], OnException("complete"))
    ELSE Set(r, "ca_sleep", [l EXCEPT !.failed = "adapter", !.raised = c, !.sleeps = @ + 1])

\* tado.device_activation(): one polling step against the vendor.
complete_activation_poll(r) ==
  /\ pc[r] = "ca_poll"
  /\ LET l == [loc[r] EXCEPT !.polls = @ + 1]
         h == loc[r].tado IN
       \/ /\ ExceptInner(r, l, "poll")
          /\ UNCHANGED <<hstatus, token_exists>>
       \/ \E s \in DriveOutcomes(hstatus[h]) :
            /\ hstatus' = [hstatus EXCEPT ![h] = s]
            /\ token_exists' = (token_exists \/ s = "COMPLETED")
            /\ Set(r, "ca_check", l)
  /\ UNCHANGED <<tado_client, nhandles, zoneStates, op,
                 lastDone, constructed, anySuccess, handleSuccess>>

\* Mutant: a status that is neither COMPLETED nor PENDING is retried too.
StillWaitingAny(s) == TRUE

\* `elif status == "PENDING"`: still waiting, try again.
StillWaiting(s) == s = "PENDING"

\* status = tado.device_activation_status() and the branch on it.
complete_activation_check(r) ==
  /\ pc[r] = "ca_check"
  /\ \/ ExceptInner(r, loc[r], "check")
     \/ LET s == hstatus[loc[r].tado]
            l == [loc[r] EXCEPT !.status = s, !.allPending = (@ /\ s = "PENDING")] IN
          IF s = "COMPLETED" THEN Set(r, "ca_zones", l)
          ELSE IF StillWaiting(s) THEN Set(r, "ca_sleep", [l EXCEPT !.sleeps = @ + 1])
          ELSE Respond(r, l, NotComplete(s))
  /\ UNCHANGED <<tado_client, hstatus, nhandles, token_exists, zoneStates, op,
                 lastDone, constructed, anySuccess, handleSuccess>>

\* Mutant: a failing fetch is swallowed and "completed" is reported on the
\* vendor status alone.
complete_activation_zones_unverified(r) ==
  /\ pc[r] = "ca_zones"
  /\ LET l == [loc[r] EXCEPT !.fetches = Count(@)] IN
       \/ Respond(r, [l EXCEPT !.failed = "adapter", !.raised = "zones"], Ok("completed"))
       \/ Respond(r, l, Completed(zoneStates))
  /\ UNCHANGED <<tado_client, hstatus, nhandles, token_exists, zoneStates, op,
                 lastDone, constructed, anySuccess, handleSuccess>>

\* zones = tado.get_zone_states() inside the loop: verify that the token works.
complete_activation_zones(r) ==
  /\ pc[r] = "ca_zones"
  /\ LET l == [loc[r] EXCEPT !.fetches = Count(@)] IN
       \/ ExceptInner(r, l, "zones")
       \/ Respond(r, l, Completed(zoneStates))
  /\ UNCHANGED <<tado_client, hstatus, nhandles, token_exists, zoneStates, op,
                 lastDone, constructed, anySuccess, handleSuccess>>

\* Mutant: the loop runs one attempt too many.
MoreAttemptsOneMore(a) == a + 1 <= MAX_ATTEMPTS

\* `for attempt in range(max_attempts)`: there is an attempt after attempt a.
MoreAttempts(a) == a + 1 < MAX_ATTEMPTS

\* time.sleep(1) returns; `continue`: the next attempt, or the loop is exhausted.
complete_activation_sleep(r) ==
  /\ pc[r] = "ca_sleep"
  /\ IF MoreAttempts(loc[r].attempt)
       THEN Set(r, "ca_poll", [loc[r] EXCEPT !.attempt = @ + 1, !.raised = ""])
       ELSE Respond(r, loc[r], NotComplete(loc[r].status))
  /\ UNCHANGED <<tado_client, hstatus, nhandles, token_exists, zoneStates, op,
                 lastDone, constructed, anySuccess, handleSuccess>>

\* -------------------------------------------------- POST /activation/reset
\* os.makedirs(os.path.dirname(TOKEN_FILE_PATH), exist_ok=True); the cached
\* handle, the status it holds and the presence of the token file at this
\* point are remembered in before, init and tokenBefore.
reset_activation_mkdir(r) ==
  /\ pc[r] = "ra_mkdir"
  /\ LET l == [loc[r] EXCEPT !.init = IF tado_client = None THEN "" ELSE hstatus[tado_client],
                             !.before = tado_client, !.tokenBefore = token_exists] IN
       \/ Respond(r, [l EXCEPT !.failed = "os"], OnException("reset"))
       \/ Set(r, "ra_remove", l)
  /\ UNCHANGED <<tado_client, hstatus, nhandles, token_exists, zoneStates, op,
                 lastDone, constructed, anySuccess, handleSuccess>>

\* Mutant: a file that is already absent is not an error.
RemoveSucceedsAlways(tok) == TRUE

\* os.remove raises FileNotFoundError when the file is absent.
RemoveSucceeds(tok) == tok

\* os.remove(TOKEN_FILE_PATH): raises when the file is absent (or cannot be removed).
reset_activation_remove(r) ==
  /\ pc[r] = "ra_remove"
  /\ \/ /\ Respond(r, [loc[r] EXCEPT !.failed = "os"], OnException("reset"))
        /\ UNCHANGED token_exists
     \/ /\ RemoveSucceeds(token_exists)
        /\ token_exists' = FALSE
        /\ Set(r, "ra_new", loc[r])
  /\ UNCHANGED <<tado_client, hstatus, nhandles, zoneStates, op,
                 lastDone, constructed, anySuccess, handleSuccess>>

\* Mutant: the new object is built and dropped; the cached one stays.
ResetStoreSkipped(s) == UNCHANGED <<tado_client, hstatus, nhandles>>

\* app.state.tado_client = client in reset_activation
ResetStore(s) == StoreClient(s)

\* client = Tado(...); app.state.tado_client = client; return "reset"
reset_activation_new(r) ==
  /\ pc[r] = "ra_new"
  /\ \/ /\ Respond(r, [loc[r] EXCEPT !.failed = "construct"], OnException("reset"))
        /\ UNCHANGED <<tado_client, hstatus, nhandles>>
     \/ \E s \in TadoInit(token_exists) :
          /\ ResetStore(s)
          /\ Respond(r, loc[r], Ok("reset"))
  /\ UNCHANGED <<token_exists, zoneStates, op, lastDone, constructed,
                 anySuccess, handleSuccess>>

\* ------------------------------------------------------------ GET /zones
\* zones = tado.get_zone_states() and the mapping of every zone
get_all_zones_fetch(r) ==
  /\ pc[r] = "gz_fetch"
  /\ LET l == [loc[r] EXCEPT !.fetches = Count(@)] IN
       \/ Respond(r, [l EXCEPT !.failed = "adapter"], OnException("zones"))
       \/ Respond(r, l, Resp(200, "zones", "", ZoneCount(zoneStates), FALSE, FALSE))
  /\ UNCHANGED <<tado_client, hstatus, nhandles, token_exists, zoneStates, op,
                 lastDone, constructed, anySuccess, handleSuccess>>

\* -------------------------------------------------- GET /zones/{zone_id}
\* zones = tado.get_zone_states(); 404 when zone_id is not in zoneStates
get_zone_fetch(r) ==
  /\ pc[r] = "z_fetch"
  /\ LET l == [loc[r] EXCEPT !.fetches = Count(@)] IN
       \/ Respond(r, [l EXCEPT !.failed = "adapter"], OnException("zone"))
       \/ IF loc[r].zone_id \notin zoneStates
            THEN Respond(r, l, OnHTTPException("zone", 404))
            ELSE Respond(r, l, Resp(200, "zone", "", NoCount, FALSE, FALSE))
  /\ UNCHANGED <<tado_client, hstatus, nhandles, token_exists, zoneStates, op,
                 lastDone, constructed, anySuccess, handleSuccess>>

\* ----------------------------------------------------------- specification
Next ==
  \E r \in Requests :
    \/ Arrive(r)
    \/ StartRequest(r)
    \/ Finish(r)
    \/ get_tado_client_read(r)
    \/ get_tado_client_new(r)
    \/ api_root(r)
    \/ health_check_exists(r)
    \/ health_check_status(r)
    \/ get_activation_status_status(r)
    \/ get_activation_status_zones(r)
    \/ start_activation_mkdir(r)
    \/ start_activation_status(r)
    \/ start_activation_zones(r)
    \/ start_activation_url(r)
    \/ complete_activation_status(r)
    \/ complete_activation_zones0(r)
    \/ complete_activation_poll(r)
    \/ complete_activation_check(r)
    \/ complete_activation_zones(r)
    \/ complete_activation_sleep(r)
    \/ reset_activation_mkdir(r)
    \/ reset_activation_remove(r)
    \/ reset_activation_new(r)
    \/ get_all_zones_fetch(r)
    \/ get_zone_fetch(r)

Spec == Init /\ [][Next]_vars

\* A step of the handler of request r: the interpreter goes on running a
\* started handler, every vendor and file-system call returns or raises,
\* and time.sleep(1) returns.
Handler(r) ==
  \/ get_tado_client_read(r) \/ get_tado_client_new(r)
  \/ api_root(r) \/ health_check_exists(r) \/ health_check_status(r)
  \/ get_activation_status_status(r) \/ get_activation_status_zones(r)
  \/ start_activation_mkdir(r) \/ start_activation_status(r)
  \/ start_activation_zones(r) \/ start_activation_url(r)
  \/ complete_activation_status(r) \/ complete_activation_zones0(r)
  \/ complete_activation_poll(r) \/ complete_activation_check(r)
  \/ complete_activation_zones(r) \/ complete_activation_sleep(r)
  \/ reset_activation_mkdir(r) \/ reset_activation_remove(r)
  \/ reset_activation_new(r)
  \/ get_all_zones_fetch(r) \/ get_zone_fetch(r)

FairSpec == Spec /\ \A r \in Requests : WF_vars(Handler(r))

TypeOK ==
  /\ tado_client \in Handles \cup {None}
  /\ nhandles \in 0..MaxHandles
  /\ token_exists \in BOOLEAN
  /\ zoneStates \subseteq ZoneIds
  /\ \A r \in Requests : loc[r].polls <= MAX_ATTEMPTS /\ loc[r].sleeps <= MAX_ATTEMPTS


\* ================================================================= claims
InLoop(r) == op[r] = "complete" /\ pc[r] \in {"ca_poll", "ca_check", "ca_zones", "ca_sleep"}
Answered(r, o) == op[r] = o /\ pc[r] = "done"

\* C1: complete() never makes more than 30 polling steps, and a call in which
\* every status observation was PENDING and no adapter call failed ends after
\* exactly 30 polling steps with the non-error response "pending" whose
\* message carries the status PENDING.
C1_BoundedPolling ==
  \A r \in Requests :
    op[r] = "complete" =>
      /\ loc[r].polls <= 30
      /\ (pc[r] = "done" /\ loc[r].allPending /\ loc[r].failed = "") =>
           /\ loc[r].polls = 30
           /\ loc[r].res = NotComplete("PENDING")
           /\ loc[r].res.code = 200

C1_Witness ==
  \E r \in Requests :
    /\ Answered(r, "complete")
    /\ loc[r].allPending /\ loc[r].failed = ""
    /\ loc[r].polls = 30

\* C2 (as claimed): a complete() call that polled has slept fewer times than
\* it polled: no sleep follows the last attempt.
C2_SleepsBelowAttempts ==
  \A r \in Requests :
    (Answered(r, "complete") /\ loc[r].polls > 0) => loc[r].sleeps < loc[r].polls

\* C3 (as claimed): complete() finding COMPLETED at once polls and sleeps
\* never, fetches the zone states once and returns "completed" with the zone
\* count, the same as the complete() answered just before it in that state.
C3_ShortCutAlwaysCompleted ==
  \A r \in Requests :
    (Answered(r, "complete") /\ loc[r].init = "COMPLETED") =>
      /\ loc[r].polls = 0 /\ loc[r].sleeps = 0 /\ loc[r].fetches = 1
      /\ loc[r].res = Completed(zoneStates)
      /\ (lastDone.op = "complete" /\ lastDone.init = "COMPLETED") => loc[r].res = lastDone.res

\* C3 (amended): complete() finding COMPLETED at once polls and sleeps never
\* and fetches the zone states once; it returns "completed" with the zone
\* count when that fetch succeeds and HTTP 500 when it fails; two such calls
\* in a row whose fetches both succeed give the same response.
C3_ShortCut ==
  \A r \in Requests :
    (Answered(r, "complete") /\ loc[r].init = "COMPLETED") =>
      /\ loc[r].polls = 0 /\ loc[r].sleeps = 0 /\ loc[r].fetches = 1
      /\ loc[r].res = IF loc[r].failed = "" THEN Completed(zoneStates) ELSE HTTPError(500)
      /\ (/\ lastDone.op = "complete" /\ lastDone.init = "COMPLETED"
          /\ lastDone.res.code = 200 /\ loc[r].failed = "") => loc[r].res = lastDone.res

C3_Witness ==
  \E r \in Requests :
    /\ Answered(r, "complete") /\ loc[r].init = "COMPLETED"
    /\ loc[r].res = Completed(zoneStates)
    /\ lastDone.op = "complete" /\ lastDone.res = Completed(zoneStates)

\* C4 (as claimed): while a complete() call is inside its polling loop, a
\* request that has arrived can be started.
C4_PollingDoesNotBlock ==
  \A r, q \in Requests :
    (InLoop(r) /\ pc[q] = "queued") => ENABLED StartRequest(q)

\* C5: get_tado_client stores a new handle at most once, it builds one only
\* while none is cached, and every request that obtained a handle holds the
\* cached one: no construction overwrites another.
C5_OneConstruction ==
  /\ constructed <= 1
  /\ \A r \in Requests :
       /\ pc[r] = "gtc_new" => tado_client = None
       /\ (Running(r) /\ loc[r].tado # None) => loc[r].tado = tado_client

C5_Witness ==
  \E r, q \in Requests :
    /\ r # q
    /\ pc[q] = "queued"
    /\ Running(r) /\ UsesHandle(op[r]) /\ loc[r].tado = tado_client
    /\ constructed = 1 /\ nhandles = 1
    /\ handleSuccess

\* C6: while reset() has deleted the token file and has not yet stored the
\* new handle, no other request is being handled: none reads the handle or
\* the token file in that state.
ResetWindow(r) == op[r] = "reset" /\ pc[r] = "ra_new"

C8_AllFailuresNotStarted ==
  \A r \in Requests :
    Answered(r, "status") =>
      /\ loc[r].res.code = 200
      /\ loc[r].failed # "" => loc[r].res.status = "not_started"

\* C8 (amended): GET /activation/status always answers normally; a failure to
\* build the handle or to read the status is reported as "not_started", and
\* a failure of the zone-state fetch made after COMPLETED was read is
\* reported as "completed" without a zone count.
C8_StatusNeverFails ==
  \A r \in Requests :
    Answered(r, "status") =>
      /\ loc[r].res.code = 200
      /\ (loc[r].failed # "" /\ loc[r].fetches = 0) => loc[r].res = Ok("not_started")
      /\ (loc[r].failed # "" /\ loc[r].fetches > 0) =>
           loc[r].res = Ok("completed") /\ loc[r].init = "COMPLETED"

C8_Witness ==
  \E r \in Requests :
    /\ Answered(r, "status")
    /\ loc[r].failed = "construct"
    /\ loc[r].res = Ok("not_started")

\* C9 (as claimed): a start, complete, zones or zone request in which the
\* construction of the handle failed ends with 503.
C9_ConstructionFailureIs503 ==
  \A r \in Requests :
    (/\ pc[r] = "done" /\ op[r] \in {"start", "complete", "zones", "zone"}
     /\ loc[r].failed = "construct") => loc[r].res.code = 503

\* C10 (as claimed): once any request has been answered without error, the
\* cached handle is not None.
C10_HandleAfterAnySuccess == anySuccess => tado_client # None

\* C10 (amended): once a request that had to use the handle (start, complete,
\* reset, zones, zone, or a status query reporting anything but
\* "not_started") has been answered without error, the cached handle is not None.
C10_HandleAfterUse == handleSuccess => tado_client # None

C10_Witness ==
  /\ handleSuccess /\ tado_client # None
  /\ \E r \in Requests : pc[r] = "done" /\ op[r] \in {"api", "health"}


\* The sleep of request r ends and the loop goes on to another attempt.
RetryAfterSleep(r) == complete_activation_sleep(r) /\ pc'[r] = "ca_poll"

\* C11: in complete(), a polling step that fails on one of the attempts 1..29
\* is not surfaced: the call sleeps once and then makes a further attempt; a
\* call that ends with the polling step failing does so on the 30th attempt,
\* with HTTP 500.
C11_PollFailureRetried ==
  \A r \in Requests :
    (op[r] = "complete" /\ loc[r].raised = "poll") =>
      /\ pc[r] \in {"ca_sleep", "done"}
      /\ pc[r] = "ca_sleep" =>
           /\ loc[r].attempt + 1 < 30
           /\ loc[r].sleeps = loc[r].polls
           /\ loc[r].res = NoResp
           /\ ENABLED RetryAfterSleep(r)
      /\ pc[r] = "done" =>
           /\ loc[r].attempt + 1 = 30
           /\ loc[r].res = HTTPError(500)

C11_Witness ==
  \E r \in Requests :
    /\ op[r] = "complete" /\ pc[r] = "ca_sleep"
    /\ loc[r].raised = "poll" /\ loc[r].attempt + 1 = 29

\* C12: in complete(), when the status checked after a polling step is
\* neither COMPLETED nor PENDING the loop ends at once: the call does not
\* sleep (it sleeps only on PENDING or after an exception), polls no more,
\* and returns the non-error "pending" response carrying that status.
C12_OtherStatusBreaks ==
  \A r \in Requests :
    op[r] = "complete" =>
      /\ (pc[r] = "ca_sleep" /\ loc[r].raised = "") => loc[r].status = "PENDING"
      /\ (/\ pc[r] = "done" /\ loc[r].polls > 0 /\ loc[r].raised = ""
          /\ loc[r].status \notin {"COMPLETED", "PENDING"}) =>
           /\ loc[r].res = NotComplete(loc[r].status)
           /\ loc[r].res.code = 200
           /\ loc[r].sleeps = loc[r].polls - 1
           /\ loc[r].polls = loc[r].attempt + 1

C12_Witness ==
  \E r \in Requests :
    /\ Answered(r, "complete") /\ loc[r].raised = ""
    /\ loc[r].status = "OTHER" /\ loc[r].polls = 2
    /\ loc[r].res = NotComplete("OTHER")


\* The responses of start_activation.
AlreadyActivated(zs) == Resp(200, "completed", "", Cardinality(zs), FALSE, FALSE)
PleaseOpenUrl        == Resp(200, "pending", "", NoCount, TRUE, FALSE)

\* C13 (as claimed): begin() that reads COMPLETED returns "completed" with the
\* zone count and requests no verification URL, the same as the begin()
\* answered just before it in that state; with any other status it requests
\* the URL and returns it with "pending".
C13_BeginAlwaysAnswers ==
  \A r \in Requests :
    (Answered(r, "start") /\ loc[r].init # "") =>
      IF loc[r].init = "COMPLETED"
        THEN /\ loc[r].urls = 0
             /\ loc[r].res = AlreadyActivated(zoneStates)
             /\ (lastDone.op = "start" /\ lastDone.init = "COMPLETED") => loc[r].res = lastDone.res
        ELSE /\ loc[r].urls = 1
             /\ loc[r].res = PleaseOpenUrl

\* C13 (amended): begin() that reads COMPLETED requests no verification URL,
\* fetches the zone states once and returns "completed" with the zone count
\* when that fetch succeeds, HTTP 500 when it fails; with any other status it
\* fetches no zone states, requests the URL once and returns it with
\* "pending" when that request succeeds, HTTP 500 when it fails.  Two begin()
\* in a row that read COMPLETED and whose fetches succeed answer the same.
C13_Begin ==
  \A r \in Requests :
    (Answered(r, "start") /\ loc[r].init # "") =>
      IF loc[r].init = "COMPLETED"
        THEN /\ loc[r].urls = 0 /\ loc[r].fetches = 1
             /\ loc[r].res = IF loc[r].failed = "" THEN AlreadyActivated(zoneStates)
                                                  ELSE HTTPError(500)
             /\ (/\ lastDone.op = "start" /\ lastDone.init = "COMPLETED"
                 /\ lastDone.res.code = 200 /\ loc[r].failed = "") => loc[r].res = lastDone.res
        ELSE /\ loc[r].urls = 1 /\ loc[r].fetches = 0
             /\ loc[r].res = IF loc[r].failed = "" THEN PleaseOpenUrl ELSE HTTPError(500)

C13_Witness ==
  \E r \in Requests :
    /\ Answered(r, "start") /\ loc[r].init = "COMPLETED"
    /\ loc[r].res = AlreadyActivated(zoneStates)
    /\ lastDone.op = "start" /\ lastDone.res = AlreadyActivated(zoneStates)

\* C14: GET /health answers "healthy" exactly when the token file exists and
\* the activation status it read is COMPLETED, and "unhealthy" otherwise (the
\* token file absent, another status, or the status check failing); it
\* reports the presence of the token file as it is.
C14_Healthy ==
  \A r \in Requests :
    Answered(r, "health") =>
      /\ loc[r].res.code = 200
      /\ loc[r].res.status \in {"healthy", "unhealthy"}
      /\ loc[r].res.status = "healthy" <=> (token_exists /\ loc[r].res.detail = "COMPLETED")
      /\ loc[r].res.token_file_exists = token_exists
      /\ ~token_exists => loc[r].res.detail = "unknown"
      /\ token_exists => loc[r].res.detail \in TadoInit(TRUE) \cup {"error"}

C14_Witness ==
  \E r \in Requests :
    /\ Answered(r, "health")
    /\ token_exists /\ loc[r].res.detail = "PENDING" /\ loc[r].res.status = "unhealthy"


\* C15: get_tado_client is lazy and idempotent.  A call that finds a cached
\* handle returns that handle and builds nothing; a call that finds none goes
\* on to build one, and caches and returns it when the construction succeeds;
\* a failed construction leaves the cache empty, so that the next call builds
\* again.  The cache is filled only by such a call or by a reset, and once
\* filled it is changed only by a reset storing its new handle.
C15_LazyIdempotent ==
  [][ /\ \A r \in Requests :
           /\ (pc[r] = "gtc_read" /\ pc'[r] # "gtc_read") =>
                IF tado_client # None
                  THEN /\ loc'[r].tado = tado_client
                       /\ tado_client' = tado_client /\ nhandles' = nhandles
                       /\ constructed' = constructed
                  ELSE /\ pc'[r] = "gtc_new"
                       /\ tado_client' = None /\ nhandles' = nhandles
           /\ (pc[r] = "gtc_new" /\ pc'[r] = "done") =>
                /\ tado_client' = tado_client /\ nhandles' = nhandles
                /\ loc'[r].tado = None
           /\ (pc[r] = "gtc_new" /\ pc'[r] \notin {"gtc_new", "done"}) =>
                /\ tado_client = None
                /\ tado_client' # None /\ loc'[r].tado = tado_client'
      /\ (tado_client = None /\ tado_client' # None) =>
           \E q \in Requests : pc[q] \in {"gtc_new", "ra_new"}
      /\ (tado_client # None /\ tado_client' # tado_client) =>
           /\ tado_client' # None
           /\ \E q \in Requests : op[q] = "reset" /\ pc[q] = "ra_new" /\ pc'[q] = "done"
    ]_vars

C15_Witness ==
  \E r \in Requests :
    /\ UsesHandle(op[r]) /\ pc[r] = AfterClient(op[r])
    /\ loc[r].tado = tado_client /\ tado_client # None
    /\ constructed = 1 /\ nhandles = 1 /\ handleSuccess

\* C16: GET /zones/{zone_id} answers 404 exactly when its zone-state fetch
\* succeeded and zone_id is not among the zones returned; a failing fetch
\* gives 500; the fetch is made at most once.
C16_NotFound ==
  \A r \in Requests :
    Answered(r, "zone") =>
      /\ loc[r].fetches <= 1
      /\ loc[r].res.code = 404 <=>
           (loc[r].fetches = 1 /\ loc[r].failed = "" /\ loc[r].zone_id \notin zoneStates)
      /\ (loc[r].fetches = 1 /\ loc[r].failed # "") => loc[r].res = HTTPError(500)
      /\ (loc[r].fetches = 1 /\ loc[r].failed = "" /\ loc[r].zone_id \in zoneStates) =>
           loc[r].res.code = 200

C16_Witness ==
  \E r \in Requests :
    /\ Answered(r, "zone") /\ loc[r].res = HTTPError(404)
    /\ loc[r].zone_id = MaxZones + 1

\* C17: complete() answers "completed" only when the status it read last is
\* COMPLETED and the zone-state fetch it made after reading it succeeded: the
\* response then carries the zone count.
C17_CompletedIsVerified ==
  \A r \in Requests :
    (Answered(r, "complete") /\ loc[r].res.status = "completed") =>
      /\ loc[r].status = "COMPLETED"
      /\ loc[r].fetches >= 1
      /\ loc[r].raised = ""
      /\ loc[r].polls = 0 => loc[r].failed = ""
      /\ loc[r].res = Completed(zoneStates)

C17_Witness ==
  \E r \in Requests :
    /\ Answered(r, "complete") /\ loc[r].res.status = "completed"
    /\ loc[r].polls > 0 /\ loc[r].fetches = 2 /\ loc[r].failed = "adapter"


\* C18: reset() called while the token file is absent ends with HTTP 500, and
\* whenever reset() ends with an error the cached handle is the one that was
\* cached when the call began, holding the status it held then.
C18_ResetErrorKeepsHandle ==
  \A r \in Requests :
    Answered(r, "reset") =>
      /\ loc[r].res \in {Ok("reset"), HTTPError(500)}
      /\ ~loc[r].tokenBefore => (loc[r].res = HTTPError(500) /\ ~token_exists)
      /\ loc[r].res.code # 200 =>
           /\ tado_client = loc[r].before
           /\ tado_client # None => hstatus[tado_client] = loc[r].init

C18_Witness ==
  \E r \in Requests :
    /\ Answered(r, "reset") /\ ~loc[r].tokenBefore
    /\ loc[r].before # None /\ loc[r].res = HTTPError(500)

\* C19: every complete() call ends in a response or an error, whatever the
\* vendor client does, after at most 30 polling steps and at most 30 sleeps.
C19_CompleteTerminates ==
  \A r \in Requests :
    /\ [](op[r] = "complete" => (loc[r].polls <= 30 /\ loc[r].sleeps <= 30))
    /\ (op[r] = "complete") ~> (pc[r] = "done")

C19_Witness ==
  \E r \in Requests :
    /\ Answered(r, "complete")
    /\ loc[r].polls = 30 /\ loc[r].sleeps = 30 /\ loc[r].failed = "adapter"

\* C20: inside the loop of complete(), the status check or the zone-state
\* fetch (made after COMPLETED was read) failing on one of the attempts 1..29
\* makes the call sleep once and go on to a further attempt, which begins
\* with the polling step; failing on the 30th attempt it ends the call with
\* HTTP 500.
C20_LaterFailuresRetried ==
  \A r \in Requests :
    (op[r] = "complete" /\ loc[r].raised \in {"check", "zones"}) =>
      /\ pc[r] \in {"ca_sleep", "done"}
      /\ loc[r].raised = "zones" => loc[r].status = "COMPLETED"
      /\ pc[r] = "ca_sleep" =>
           /\ loc[r].attempt + 1 < 30
           /\ loc[r].sleeps = loc[r].polls
           /\ loc[r].res = NoResp
           /\ ENABLED RetryAfterSleep(r)
      /\ pc[r] = "done" =>
           /\ loc[r].attempt + 1 = 30
           /\ loc[r].res = HTTPError(500)

C20_Witness ==
  \E r \in Requests :
    /\ op[r] = "complete" /\ pc[r] = "ca_sleep"
    /\ loc[r].raised = "zones" /\ loc[r].status = "COMPLETED"
    /\ loc[r].attempt + 1 < 30

=============================================================================
